---- MODULE Spec2Model ----
(***************************************************************************)
(* The task store of the to-do list application (models/todo.py) together  *)
(* with the two request handlers of app.py that reach it with their own    *)
(* logic (the create form and the chat bridge).                            *)
(*                                                                         *)
(* Python values are tagged records, strings are sequences of character    *)
(* codes, a dict is a function from key names to values, a list is a       *)
(* sequence.  The snapshot file holds a JSON document (or is absent,       *)
(* unreadable, or holds text that does not parse).                         *)
(***************************************************************************)
EXTENDS Integers, Sequences, FiniteSets, TLC

VARIABLES
  tasks,     \* Todo.tasks: the list of task dicts
  next_id,   \* Todo.next_id
  file,      \* the content of data_file on disk
  pc,        \* "down": no Todo object; "up": constructed; "failed": __init__ raised
  result,    \* outcome of the last call: [op, exc, ret, saved]
  issued     \* history: ids returned by create_task since construction

vars == <<tasks, next_id, file, pc, result, issued>>

----------------------------------------------------------------------------
(* Bounds of the model *)

\* create_task is cut off once next_id exceeds MaxCreates
MaxCreates == 2

----------------------------------------------------------------------------
(* Python values *)

PyNone == [t |-> "NoneType"]
PyStr(s) == [t |-> "str", s |-> s]
PyInt(n) == [t |-> "int", n |-> n]
PyBool(b) == [t |-> "bool", b |-> b]
PyDict(d) == [t |-> "dict", d |-> d]
PyList(l) == [t |-> "list", l |-> l]

\* bool(v) / the truth value Python's `not` and `or` test
Truthy(v) ==
  CASE v.t = "NoneType" -> FALSE
    [] v.t = "str" -> Len(v.s) > 0
    [] v.t = "int" -> v.n # 0
    [] v.t = "bool" -> v.b
    [] v.t = "dict" -> DOMAIN v.d # {}
    [] v.t = "list" -> Len(v.l) > 0

\* the dict {} / the JSON object {}
NoItems == [k \in {} |-> PyNone]

\* dict.get(k, default)
DictGet(d, k, default) == IF k \in DOMAIN d THEN d[k] ELSE default

----------------------------------------------------------------------------
(* Strings: sequences of character codes *)

IsSpace(c) == c \in {9, 10, 11, 12, 13, 32}

RECURSIVE lstrip(_)
lstrip(s) == IF Len(s) > 0 /\ IsSpace(Head(s)) THEN lstrip(Tail(s)) ELSE s

RECURSIVE rstrip(_)
rstrip(s) ==
  IF Len(s) > 0 /\ IsSpace(s[Len(s)]) THEN rstrip(SubSeq(s, 1, Len(s) - 1)) ELSE s

\* str.strip()
strip(s) == rstrip(lstrip(s))

\* str.lower() on ASCII
lower(s) == [i \in 1..Len(s) |-> IF s[i] \in 65..90 THEN s[i] + 32 ELSE s[i]]

\* `sub in s` for strings
Contains(sub, s) ==
  \E i \in 0..(Len(s) - Len(sub)) : SubSeq(s, i + 1, i + Len(sub)) = sub

\* s < t for strings (lexicographic on character codes)
RECURSIVE StrLess(_, _)
StrLess(a, b) ==
  IF Len(b) = 0 THEN FALSE
  ELSE IF Len(a) = 0 THEN TRUE
  ELSE IF Head(a) # Head(b) THEN Head(a) < Head(b)
  ELSE StrLess(Tail(a), Tail(b))

\* string literals of the source
S_empty == << >>
S_medium == <<109, 101, 100, 105, 117, 109>>
S_high == <<104, 105, 103, 104>>
S_low == <<108, 111, 119>>
S_general == <<103, 101, 110, 101, 114, 97, 108>>
S_add == <<97, 100, 100>>
S_sentinel == <<57, 57, 57, 57, 45, 49, 50, 45, 51, 49>>   \* '9999-12-31'
S_completed == <<99, 111, 109, 112, 108, 101, 116, 101, 100>>
S_pending == <<112, 101, 110, 100, 105, 110, 103>>
S_category_colon == <<99, 97, 116, 101, 103, 111, 114, 121, 58>>   \* 'category:'
S_priority == <<112, 114, 105, 111, 114, 105, 116, 121>>
S_created_at == <<99, 114, 101, 97, 116, 101, 100, 95, 97, 116>>
S_title == <<116, 105, 116, 108, 101>>
S_due_date == <<100, 117, 101, 95, 100, 97, 116, 101>>

----------------------------------------------------------------------------
(* JSON documents, as json.dump writes them and json.load reads them *)

JNull == [j |-> "null"]
JString(s) == [j |-> "string", s |-> s]
JNumber(n) == [j |-> "number", n |-> n]
JBoolean(b) == [j |-> "boolean", b |-> b]
JArray(a) == [j |-> "array", a |-> a]
JObject(m) == [j |-> "object", m |-> m]

\* the JSON text json.dump writes for a scalar value
ToJson(v) ==
  CASE v.t = "NoneType" -> JNull
    [] v.t = "str" -> JString(v.s)
    [] v.t = "int" -> JNumber(v.n)
    [] v.t = "bool" -> JBoolean(v.b)

\* the Python value json.load builds for a scalar
FromJson(x) ==
  CASE x.j = "null" -> PyNone
    [] x.j = "string" -> PyStr(x.s)
    [] x.j = "number" -> PyInt(x.n)
    [] x.j = "boolean" -> PyBool(x.b)

\* json.dump of a task dict / json.load of a JSON object of scalars
DumpDict(d) == JObject([k \in DOMAIN d |-> ToJson(d[k])])
LoadDict(x) == [k \in DOMAIN x.m |-> FromJson(x.m[k])]

\* json.dump({'tasks': self.tasks, 'next_id': self.next_id}, f)
DumpData(t, n) ==
  JObject([tasks |-> JArray([i \in 1..Len(t) |-> DumpDict(t[i])]),
           next_id |-> JNumber(n)])

\* the states of data_file
FileAbsent == [kind |-> "absent"]
FileUnreadable == [kind |-> "unreadable"]   \* exists, open() is refused
FileGarbage == [kind |-> "text"]            \* exists, is not JSON (also: cut short)
FileJson(doc) == [kind |-> "json", doc |-> doc]

\* outcomes of a store call: the store's fields, the file, the exception
\* raised ("none" when the call returned), the value returned, and how
\* save_tasks went ("no" when it was not called)
Outcome(t, n, f, exc, ret, saved) ==
  [tasks |-> t, next_id |-> n, file |-> f, exc |-> exc, ret |-> ret, saved |-> saved]

\* Todo.load_tasks on a store just initialised by __init__
load_tasks(t, n, f) ==
  CASE f.kind = "absent" -> Outcome(t, n, f, "none", PyNone, "no")
    [] f.kind = "unreadable" -> Outcome(t, n, f, "PermissionError", PyNone, "no")
    [] f.kind = "text" -> Outcome(<< >>, 1, f, "none", PyNone, "no")
    [] f.kind = "json" ->
         IF f.doc.j # "object"
         THEN Outcome(t, n, f, "AttributeError", PyNone, "no")
         ELSE LET m == f.doc.m
                  lt == IF "tasks" \in DOMAIN m
                        THEN [i \in 1..Len(m.tasks.a) |-> LoadDict(m.tasks.a[i])]
                        ELSE << >>
                  ln == IF "next_id" \in DOMAIN m THEN m.next_id.n ELSE 1
              IN Outcome(lt, ln, f, "none", PyNone, "no")

\* Todo.save_tasks: the file it leaves; io is what the environment does
save_tasks(t, n, f, io) ==
  CASE io = "ok" -> FileJson(DumpData(t, n))
    [] io = "open_failed" -> f
    [] io = "write_failed" -> FileGarbage

----------------------------------------------------------------------------
(* The task store: models/todo.py *)

\* the index of the task get_task returns, 0 when it returns None
get_task(t, task_id) ==
  IF \E i \in 1..Len(t) : t[i].id = PyInt(task_id)
  THEN CHOOSE i \in 1..Len(t) :
         /\ t[i].id = PyInt(task_id)
         /\ \A j \in 1..(i - 1) : t[j].id # PyInt(task_id)
  ELSE 0

\* create_task numbering the new task by the length of the list
create_task_numbered_by_length(t, n, f, title, priority, category, due_date, now, io) ==
  IF ~Truthy(title) THEN Outcome(t, n, f, "ValueError", PyNone, "no")
  ELSE IF title.t # "str" THEN Outcome(t, n, f, "AttributeError", PyNone, "no")
  ELSE IF Len(strip(title.s)) = 0 THEN Outcome(t, n, f, "ValueError", PyNone, "no")
  ELSE LET task == [id |-> PyInt(Len(t) + 1),
                    title |-> PyStr(strip(title.s)),
                    completed |-> PyBool(FALSE),
                    priority |-> priority,
                    category |-> category,
                    created_at |-> PyStr(now),
                    due_date |-> due_date,
                    notes |-> PyStr(S_empty)]
           t2 == Append(t, task)
           n2 == n + 1
       IN Outcome(t2, n2, save_tasks(t2, n2, f, io), "none", task, io)

\* create_task testing the title only with `not title`
create_task_without_strip_test(t, n, f, title, priority, category, due_date, now, io) ==
  IF ~Truthy(title) THEN Outcome(t, n, f, "ValueError", PyNone, "no")
  ELSE IF title.t # "str" THEN Outcome(t, n, f, "AttributeError", PyNone, "no")
  ELSE LET task == [id |-> PyInt(n),
                    title |-> PyStr(strip(title.s)),
                    completed |-> PyBool(FALSE),
                    priority |-> priority,
                    category |-> category,
                    created_at |-> PyStr(now),
                    due_date |-> due_date,
                    notes |-> PyStr(S_empty)]
           t2 == Append(t, task)
           n2 == n + 1
       IN Outcome(t2, n2, save_tasks(t2, n2, f, io), "none", task, io)

\* Todo.create_task; now is datetime.now().isoformat(), io the fate of the save
create_task(t, n, f, title, priority, category, due_date, now, io) ==
  IF ~Truthy(title) THEN Outcome(t, n, f, "ValueError", PyNone, "no")
  ELSE IF title.t # "str" THEN Outcome(t, n, f, "AttributeError", PyNone, "no")
  ELSE IF Len(strip(title.s)) = 0 THEN Outcome(t, n, f, "ValueError", PyNone, "no")
  ELSE LET task == [id |-> PyInt(n),
                    title |-> PyStr(strip(title.s)),
                    completed |-> PyBool(FALSE),
                    priority |-> priority,
                    category |-> category,
                    created_at |-> PyStr(now),
                    due_date |-> due_date,
                    notes |-> PyStr(S_empty)]
           t2 == Append(t, task)
           n2 == n + 1
       IN Outcome(t2, n2, save_tasks(t2, n2, f, io), "none", task, io)

allowed_fields == {"title", "completed", "priority", "category", "due_date", "notes"}

\* the loop of update_task over kwargs, a sequence of <<field, value>> in
\* call order: the task as the loop leaves it and the exception that ended it
RECURSIVE update_fields(_, _)
update_fields(task, kwargs) ==
  IF Len(kwargs) = 0 THEN [task |-> task, exc |-> "none"]
  ELSE LET field == kwargs[1][1]
           value == kwargs[1][2]
       IN IF field \in allowed_fields /\ value.t # "NoneType"
          THEN IF field = "title" /\ ~Truthy(value)
               THEN [task |-> task, exc |-> "ValueError"]
               ELSE IF field = "title" /\ value.t # "str"
               THEN [task |-> task, exc |-> "AttributeError"]
               ELSE IF field = "title" /\ Len(strip(value.s)) = 0
               THEN [task |-> task, exc |-> "ValueError"]
               ELSE IF field = "completed"
               THEN update_fields([task EXCEPT ![field] = PyBool(Truthy(value))],
                                  Tail(kwargs))
               ELSE update_fields([task EXCEPT ![field] = value], Tail(kwargs))
          ELSE update_fields(task, Tail(kwargs))

\* Todo.update_task; the task dict is changed in place, so what the loop did
\* before an exception stays in self.tasks
update_task(t, n, f, task_id, kwargs, io) ==
  LET i == get_task(t, task_id) IN
  IF i = 0 THEN Outcome(t, n, f, "none", PyNone, "no")
  ELSE LET u == update_fields(t[i], kwargs)
           t2 == [t EXCEPT ![i] = u.task]
       IN IF u.exc # "none"
          THEN Outcome(t2, n, f, u.exc, PyNone, "no")
          ELSE Outcome(t2, n, save_tasks(t2, n, f, io), "none", u.task, io)

\* list.remove(x): the list without its first element equal to x
list_remove(t, x) ==
  LET k == CHOOSE i \in 1..Len(t) : t[i] = x /\ \A j \in 1..(i - 1) : t[j] # x
  IN SubSeq(t, 1, k - 1) \o SubSeq(t, k + 1, Len(t))

\* delete_task saving whether or not it found the task
delete_task_saving_always(t, n, f, task_id, io) ==
  LET i == get_task(t, task_id) IN
  IF i = 0 THEN Outcome(t, n, save_tasks(t, n, f, io), "none", PyBool(FALSE), io)
  ELSE LET t2 == list_remove(t, t[i])
       IN Outcome(t2, n, save_tasks(t2, n, f, io), "none", PyBool(TRUE), io)

\* Todo.delete_task
delete_task(t, n, f, task_id, io) ==
  LET i == get_task(t, task_id) IN
  IF i = 0 THEN Outcome(t, n, f, "none", PyBool(FALSE), "no")
  ELSE LET t2 == list_remove(t, t[i])
       IN Outcome(t2, n, save_tasks(t2, n, f, io), "none", PyBool(TRUE), io)

NotCompleted(task) == ~Truthy(task.completed)

\* delete_completed_tasks saving the list before it is filtered
delete_completed_tasks_saving_first(t, n, f, io) ==
  LET t2 == SelectSeq(t, NotCompleted)
      deleted_count == Len(t) - Len(t2)
  IN IF deleted_count > 0
     THEN Outcome(t2, n, save_tasks(t, n, f, io), "none", PyInt(deleted_count), io)
     ELSE Outcome(t2, n, f, "none", PyInt(deleted_count), "no")

\* Todo.delete_completed_tasks
delete_completed_tasks(t, n, f, io) ==
  LET t2 == SelectSeq(t, NotCompleted)
      deleted_count == Len(t) - Len(t2)
  IN IF deleted_count > 0
     THEN Outcome(t2, n, save_tasks(t2, n, f, io), "none", PyInt(deleted_count), io)
     ELSE Outcome(t2, n, f, "none", PyInt(deleted_count), "no")

\* Todo.search_tasks: the list it returns (query is None or a str)
search_tasks(t, query) ==
  IF ~Truthy(query) THEN << >>
  ELSE LET q == strip(lower(query.s))
           Matches(task) == \/ Contains(q, lower(task.title.s))
                            \/ Contains(q, lower(task.notes.s))
       IN SelectSeq(t, Matches)

\* s.startswith(p)
StartsWith(s, p) == Len(s) >= Len(p) /\ SubSeq(s, 1, Len(p)) = p

\* s.split(':')[1] for an s that holds a colon
SplitColon1(s) ==
  LET i == CHOOSE k \in 1..Len(s) : s[k] = 58 /\ \A m \in 1..(k - 1) : s[m] # 58
      rest == SubSeq(s, i + 1, Len(s))
      stops == {k \in 1..Len(rest) : rest[k] = 58}
      j == IF stops = {} THEN Len(rest) + 1
           ELSE CHOOSE k \in stops : \A m \in stops : k <= m
  IN SubSeq(rest, 1, j - 1)

\* the filter step of read_tasks (filter_by is None or a str)
apply_filter(t, filter_by) ==
  LET IsCompleted(task) == Truthy(task.completed)
      IsPending(task) == ~Truthy(task.completed)
      HasPriority(task) == task.priority = filter_by
      InCategory(task) ==
        DictGet(task, "category", PyStr(S_general)) = PyStr(SplitColon1(filter_by.s))
  IN IF ~Truthy(filter_by) THEN t
     ELSE IF filter_by.s = S_completed THEN SelectSeq(t, IsCompleted)
     ELSE IF filter_by.s = S_pending THEN SelectSeq(t, IsPending)
     ELSE IF filter_by.s \in {S_high, S_medium, S_low} THEN SelectSeq(t, HasPriority)
     ELSE IF StartsWith(filter_by.s, S_category_colon) THEN SelectSeq(t, InCategory)
     ELSE t

\* list.sort(key=...): stable; less[i][j] says that the key of t[i] is
\* smaller than the key of t[j]
StableSort(t, less) ==
  LET n == Len(t)
      pos(i) == 1 + Cardinality({j \in 1..n :
                       \/ less[j][i]
                       \/ (~less[i][j] /\ j < i)})
  IN [p \in 1..n |-> t[CHOOSE i \in 1..n : pos(i) = p]]

\* priority_order.get(x['priority'], 4)
priority_order(p) ==
  IF p = PyStr(S_high) THEN 1
  ELSE IF p = PyStr(S_medium) THEN 2
  ELSE IF p = PyStr(S_low) THEN 3
  ELSE 4

BoolInt(b) == IF b THEN 1 ELSE 0

\* (x['completed'], priority_order.get(x['priority'], 4)) compared as tuples
PriorityLess(x, y) ==
  \/ BoolInt(x.completed.b) < BoolInt(y.completed.b)
  \/ /\ x.completed.b = y.completed.b
     /\ priority_order(x.priority) < priority_order(y.priority)

\* x.get('created_at', ''), with reverse=True
CreatedAtLess(x, y) ==
  StrLess(DictGet(y, "created_at", PyStr(S_empty)).s,
          DictGet(x, "created_at", PyStr(S_empty)).s)

\* x['title'].lower()
TitleLess(x, y) == StrLess(lower(x.title.s), lower(y.title.s))

\* x.get('due_date') or '9999-12-31'  (due dates are None or str here)
due_date_key(x) ==
  LET d == DictGet(x, "due_date", PyNone)
  IN IF Truthy(d) THEN d.s ELSE S_sentinel

DueDateLess(x, y) == StrLess(due_date_key(x), due_date_key(y))

\* Todo.read_tasks: the list it returns
read_tasks(t, filter_by, sort_by) ==
  LET ft == apply_filter(t, filter_by)
      n == Len(ft)
      by_priority == [i \in 1..n |-> [j \in 1..n |-> PriorityLess(ft[i], ft[j])]]
      by_created_at == [i \in 1..n |-> [j \in 1..n |-> CreatedAtLess(ft[i], ft[j])]]
      by_title == [i \in 1..n |-> [j \in 1..n |-> TitleLess(ft[i], ft[j])]]
      by_due_date == [i \in 1..n |-> [j \in 1..n |-> DueDateLess(ft[i], ft[j])]]
  IN IF sort_by = PyStr(S_priority) THEN StableSort(ft, by_priority)
     ELSE IF sort_by = PyStr(S_created_at) THEN StableSort(ft, by_created_at)
     ELSE IF sort_by = PyStr(S_title) THEN StableSort(ft, by_title)
     ELSE IF sort_by = PyStr(S_due_date) THEN StableSort(ft, by_due_date)
     ELSE ft

----------------------------------------------------------------------------
(* The request handlers of app.py that add logic of their own *)

JsonResponse(success, status) == [kind |-> "json", success |-> success, status |-> status]
Redirect == [kind |-> "redirect", status |-> 302]

\* app.create_task: form_title and form_due are the form's strings, xhr says
\* whether the X-Requested-With header names XMLHttpRequest
app_create_task(t, n, f, form_title, priority, category, form_due, xhr, now, io) ==
  LET title == PyStr(strip(form_title.s))
      due_date == IF Truthy(form_due) THEN form_due ELSE PyNone
  IN IF ~Truthy(title)
     THEN Outcome(t, n, f, "none", JsonResponse(FALSE, 400), "no")
     ELSE LET o == create_task(t, n, f, title, priority, category, due_date, now, io)
          IN IF o.exc = "none"
             THEN [o EXCEPT !.ret = IF xhr THEN JsonResponse(TRUE, 200) ELSE Redirect]
             ELSE IF o.exc = "ValueError"
             THEN [o EXCEPT !.ret = IF xhr THEN JsonResponse(FALSE, 400) ELSE Redirect]
             ELSE [o EXCEPT !.ret = IF xhr THEN JsonResponse(FALSE, 500) ELSE Redirect]

\* what the generative-text service does with one request:
\*   [kind |-> "transport_error"]   requests.post or raise_for_status raises
\*   [kind |-> "no_text"]           the reply carries no candidate text
\*   [kind |-> "text", directive |-> d]  with d one of
\*       [d |-> "absent"]           no '###JSON###' marker in the text
\*       [d |-> "unparseable"]      json.loads of the part after the marker raises
\*       [d |-> "value", v |-> x]   json.loads returns the Python value x
\* app.chat: message is the request's 'message', has_key says whether
\* GEMINI_API_KEY is set
chat(t, n, f, message, has_key, reply, now, io) ==
  LET failed(exc, status) == Outcome(t, n, f, exc, JsonResponse(FALSE, status), "no")
      tasks_in_prompt == read_tasks(t, PyNone, PyStr(S_priority))
  IN IF Len(strip(message.s)) = 0 THEN failed("none", 400)
     ELSE IF ~has_key THEN failed("none", 500)
     ELSE IF reply.kind = "transport_error" THEN failed("RequestException", 500)
     ELSE IF reply.kind = "no_text" THEN failed("none", 400)
     ELSE LET action == IF reply.directive.d = "value" THEN reply.directive.v ELSE PyNone
          IN IF ~Truthy(action)
             THEN Outcome(t, n, f, "none", JsonResponse(TRUE, 200), "no")
             ELSE IF action.t # "dict" THEN failed("AttributeError", 500)
             ELSE IF DictGet(action.d, "action", PyNone) # PyStr(S_add)
             THEN Outcome(t, n, f, "none", JsonResponse(TRUE, 200), "no")
             ELSE LET title == DictGet(action.d, "title", PyNone)
                      priority == DictGet(action.d, "priority", PyStr(S_medium))
                      o == create_task(t, n, f, title, priority, PyStr(S_general),
                                       PyNone, now, io)
                  IN IF o.exc # "none"
                     THEN [o EXCEPT !.ret = JsonResponse(FALSE, 500)]
                     ELSE IF priority.t # "str"   \* priority.capitalize()
                     THEN [o EXCEPT !.exc = "AttributeError",
                                    !.ret = JsonResponse(FALSE, 500)]
                     ELSE [o EXCEPT !.ret = JsonResponse(TRUE, 200)]

----------------------------------------------------------------------------
(* The inputs the calls are drawn from *)

S_blank == <<32>>                                   \* ' '
S_a == <<97>>                                       \* 'a'
S_a_padded == <<32, 97, 32>>                        \* ' a '
S_B == <<66>>                                       \* 'B'
S_ab == <<97, 98>>                                  \* 'ab'
S_urgent == <<117, 114, 103, 101, 110, 116>>        \* 'urgent'
S_date == <<50, 48, 50, 52, 45, 48, 49, 45, 48, 49>>    \* '2024-01-01'
\* datetime.now().isoformat(): '2024-05-01T10:00:00'
S_now == <<50, 48, 50, 52, 45, 48, 53, 45, 48, 49, 84, 49, 48, 58, 48, 48, 58, 48, 48>>

TaskIdInputs == 1..(MaxCreates + 1)

\* the ways the environment lets save_tasks end
SaveOutcomes == {"ok", "open_failed", "write_failed"}

\* titles handed to create_task
BlankTitles == {PyStr(S_empty), PyStr(S_blank)}
TitleInputs == BlankTitles \cup {PyStr(S_a), PyStr(S_a_padded)}

\* keyword arguments of update_task, in call order
KwargsInputs ==
  { << >>,
    << <<"completed", PyBool(TRUE)>> >>,
    << <<"completed", PyBool(TRUE)>>, <<"title", PyStr(S_blank)>> >>,
    << <<"title", PyStr(S_blank)>>, <<"completed", PyBool(TRUE)>> >>,
    << <<"id", PyInt(1)>>, <<"notes", PyNone>> >> }

\* keyword arguments that change what read_tasks and search_tasks look at
ReadKwargsInputs ==
  { << <<"priority", PyStr(S_urgent)>> >>,
    << <<"due_date", PyStr(S_sentinel)>> >>,
    << <<"notes", PyStr(S_ab)>> >>,
    << <<"title", PyStr(S_B)>> >> }

BlankQueries == {PyStr(S_empty), PyStr(S_blank)}
QueryInputs == BlankQueries \cup {PyNone, PyStr(<<65>>), PyStr(<<32, 66>>)}
FilterInputs == {PyNone, PyStr(S_medium)}
SortInputs == {PyStr(S_priority), PyStr(S_due_date)}

MessageInputs == {PyStr(S_empty), PyStr(<<104, 105>>)}
DirectiveValues ==
  { PyDict([action |-> PyStr(S_add), title |-> PyStr(S_a)]),
    PyDict([action |-> PyStr(S_add), title |-> PyStr(S_a), priority |-> PyNone]),
    PyDict([action |-> PyStr(S_add), title |-> PyStr(S_blank)]),
    PyDict([action |-> PyStr(S_add)]),
    PyDict([action |-> PyStr(S_completed), id |-> PyInt(1)]),
    PyDict(NoItems),
    PyList(<<PyInt(1)>>) }
ReplyInputs ==
  { [kind |-> "transport_error"], [kind |-> "no_text"],
    [kind |-> "text", directive |-> [d |-> "absent"]],
    [kind |-> "text", directive |-> [d |-> "unparseable"]] }
  \cup {[kind |-> "text", directive |-> [d |-> "value", v |-> x]] : x \in DirectiveValues}

----------------------------------------------------------------------------
(* The state machine *)

Result(op, o) == [op |-> op, exc |-> o.exc, ret |-> o.ret, saved |-> o.saved]

\* snapshot files the program may find at its first start
InitFiles ==
  { FileAbsent, FileUnreadable, FileGarbage,
    FileJson(JObject(NoItems)), FileJson(JArray(<< >>)) }

Init ==
  /\ tasks = << >>
  /\ next_id = 1
  /\ file \in InitFiles
  /\ pc = "down"
  /\ result = [op |-> "none", exc |-> "none", ret |-> PyNone, saved |-> "no"]
  /\ issued = << >>

\* the store's fields and the file after a call
Apply(o) ==
  /\ tasks' = o.tasks
  /\ next_id' = o.next_id
  /\ file' = o.file

\* a process start: todo = Todo()
TodoInit ==
  /\ pc \in {"down", "up"}
  /\ LET o == load_tasks(<< >>, 1, file)
     IN /\ Apply(o)
        /\ pc' = IF o.exc = "none" THEN "up" ELSE "failed"
        /\ result' = Result("init", o)
  /\ issued' = << >>

\* a call of Todo.create_task with arguments from the given sets
CreateTaskFrom(Titles, Priorities, DueDates, Ios) ==
  /\ pc = "up"
  /\ next_id <= MaxCreates
  /\ \E title \in Titles, priority \in Priorities, due_date \in DueDates, io \in Ios :
       LET o == create_task(tasks, next_id, file, title, priority, PyStr(S_general),
                            due_date, S_now, io)
       IN /\ Apply(o)
          /\ result' = Result("create_task", o)
          /\ issued' = IF o.exc = "none" THEN Append(issued, o.ret.id.n) ELSE issued
  /\ UNCHANGED pc

\* a call of Todo.update_task
UpdateTaskFrom(Ids, Kwargs, Ios) ==
  /\ pc = "up"
  /\ \E task_id \in Ids, kwargs \in Kwargs, io \in Ios :
       LET o == update_task(tasks, next_id, file, task_id, kwargs, io)
       IN /\ Apply(o)
          /\ result' = Result("update_task", o)
  /\ UNCHANGED <<pc, issued>>

\* a call of Todo.delete_task
DeleteTaskFrom(Ids) ==
  /\ pc = "up"
  /\ \E task_id \in Ids, io \in SaveOutcomes :
       LET o == delete_task(tasks, next_id, file, task_id, io)
       IN /\ Apply(o)
          /\ result' = Result("delete_task", o)
  /\ UNCHANGED <<pc, issued>>

\* a call of Todo.delete_completed_tasks
DeleteCompletedTasks ==
  /\ pc = "up"
  /\ \E io \in SaveOutcomes :
       LET o == delete_completed_tasks(tasks, next_id, file, io)
       IN /\ Apply(o)
          /\ result' = Result("delete_completed_tasks", o)
  /\ UNCHANGED <<pc, issued>>

\* a call of Todo.search_tasks
SearchTasksFrom(Queries) ==
  /\ pc = "up"
  /\ \E query \in Queries :
       result' = [op |-> "search_tasks", exc |-> "none",
                  ret |-> PyList(search_tasks(tasks, query)), saved |-> "no"]
  /\ UNCHANGED <<tasks, next_id, file, pc, issued>>

\* a call of Todo.read_tasks
ReadTasksFrom(Filters, Sorts) ==
  /\ pc = "up"
  /\ \E filter_by \in Filters, sort_by \in Sorts :
       result' = [op |-> "read_tasks", exc |-> "none",
                  ret |-> PyList(read_tasks(tasks, filter_by, sort_by)), saved |-> "no"]
  /\ UNCHANGED <<tasks, next_id, file, pc, issued>>

\* a POST /tasks request
AppCreateTaskFrom(Titles) ==
  /\ pc = "up"
  /\ next_id <= MaxCreates
  /\ \E form_title \in Titles, xhr \in BOOLEAN, io \in SaveOutcomes :
       LET o == app_create_task(tasks, next_id, file, form_title, PyStr(S_medium),
                                PyStr(S_general), PyStr(S_empty), xhr, S_now, io)
       IN /\ Apply(o)
          /\ result' = Result("app_create_task", o)
          /\ issued' = IF o.next_id # next_id THEN Append(issued, next_id) ELSE issued
  /\ UNCHANGED pc

\* a POST /chat request
Chat ==
  /\ pc = "up"
  /\ next_id <= MaxCreates
  /\ \E message \in MessageInputs, has_key \in BOOLEAN, reply \in ReplyInputs,
        io \in SaveOutcomes :
       LET o == chat(tasks, next_id, file, message, has_key, reply, S_now, io)
       IN /\ Apply(o)
          /\ result' = Result("chat", o)
          /\ issued' = IF o.next_id # next_id THEN Append(issued, next_id) ELSE issued
  /\ UNCHANGED pc

CreateTask == CreateTaskFrom(TitleInputs, {PyStr(S_medium)}, {PyNone}, SaveOutcomes)
UpdateTask == UpdateTaskFrom(TaskIdInputs, KwargsInputs, SaveOutcomes)
DeleteTask == DeleteTaskFrom(TaskIdInputs)
AppCreateTask == AppCreateTaskFrom(TitleInputs)

\* the store, its persistence and the create form
Next ==
  \/ TodoInit
  \/ CreateTask
  \/ UpdateTask
  \/ DeleteTask
  \/ DeleteCompletedTasks
  \/ AppCreateTask

Spec == Init /\ [][Next]_vars

\* the store under the chat bridge
NextChat ==
  \/ TodoInit
  \/ Chat
  \/ DeleteTask

SpecChat == Init /\ [][NextChat]_vars

CreateTaskRead ==
  CreateTaskFrom({PyStr(S_a)}, {PyStr(S_medium)}, {PyNone, PyStr(S_date)}, {"ok"})
UpdateTaskRead == UpdateTaskFrom(TaskIdInputs, ReadKwargsInputs, {"ok"})
SearchTasks == SearchTasksFrom(QueryInputs)
ReadTasks == ReadTasksFrom(FilterInputs, SortInputs)

\* the store as create_task and update_task fill it, and the reading calls
NextRead ==
  \/ TodoInit
  \/ CreateTaskRead
  \/ UpdateTaskRead
  \/ SearchTasks
  \/ ReadTasks

SpecRead == Init /\ [][NextRead]_vars

----------------------------------------------------------------------------
(* Properties *)

store == <<tasks, next_id>>

\* the snapshot on disk is the one save_tasks writes for the store in memory
Persisted == file = FileJson(DumpData(tasks, next_id))

\* C1: the identifiers successive successful create_task calls return are
\* strictly increasing, so none is returned twice, also when the task that
\* held one was deleted in between.
C1_IssuedIdsStrictlyIncreasing ==
  \A i, j \in 1..Len(issued) : i < j => issued[i] < issued[j]

\* a create_task that returned after an earlier task had been deleted
C1_CreateAfterDelete ==
  /\ result.op = "create_task"
  /\ result.exc = "none"
  /\ Len(issued) = 2
  /\ Len(tasks) = 1

\* C2: update_task on an existing task with a priority that is not high,
\* medium or low leaves the task's priority as it was and returns the task.
C2_UnknownPriorityIgnored ==
  [][\A task_id \in TaskIdInputs :
       (/\ get_task(tasks, task_id) # 0
        /\ UpdateTaskFrom({task_id}, {<< <<"priority", PyStr(S_urgent)>> >>}, {"ok"}))
       => /\ result'.exc = "none"
          /\ result'.ret = tasks'[get_task(tasks, task_id)]
          /\ tasks'[get_task(tasks, task_id)].priority
               = tasks[get_task(tasks, task_id)].priority]_vars

\* C3: search_tasks with an empty or a blank query returns the empty list,
\* whatever the store holds.
C3_BlankQueryFindsNothing ==
  [][SearchTasksFrom(BlankQueries) => Len(result'.ret.l) = 0]_vars

\* C4: create_task with an empty or blank title raises the validation error
\* and leaves the task list, next_id and the snapshot as they were; the create
\* form answers such a title with a 400 and leaves them as they were too.
C4_BlankTitleRejected ==
  [][/\ CreateTaskFrom(BlankTitles, {PyStr(S_medium)}, {PyNone}, SaveOutcomes)
          => (result'.exc = "ValueError" /\ UNCHANGED <<tasks, next_id, file>>)
     /\ AppCreateTaskFrom(BlankTitles)
          => (/\ result'.ret = JsonResponse(FALSE, 400)
              /\ UNCHANGED <<tasks, next_id, file>>)]_vars

\* a create_task that raised the validation error on a store holding tasks
C4_RejectedOnFilledStore ==
  /\ result.op = "create_task"
  /\ result.exc = "ValueError"
  /\ Len(tasks) > 0

\* C5: delete_task on an identifier no stored task has returns False, leaves
\* the task list and next_id as they were and does not write the snapshot.
C5_DeleteMissingIsNoOp ==
  [][DeleteTaskFrom({i \in TaskIdInputs : get_task(tasks, i) = 0})
       => /\ result'.ret = PyBool(FALSE)
          /\ result'.saved = "no"
          /\ UNCHANGED <<tasks, next_id, file>>]_vars

\* a delete_task that returned False while the snapshot lagged behind the store
C5_MissOnUnsavedStore ==
  /\ result.op = "delete_task"
  /\ result.ret = PyBool(FALSE)
  /\ Len(tasks) > 0
  /\ ~Persisted

\* the last call was a store operation that changed the store and returned
Mutated ==
  /\ result.exc = "none"
  /\ \/ result.op = "create_task"
     \/ result.op = "update_task" /\ result.ret # PyNone
     \/ result.op = "delete_task" /\ result.ret = PyBool(TRUE)
     \/ result.op = "delete_completed_tasks" /\ result.ret.n > 0

\* C7: after a mutating store operation that returned, save_tasks has been
\* called, and when it did not fail the snapshot loads into a fresh store as
\* the same task list and the same next_id.
C7_SnapshotReproducesStore ==
  Mutated =>
    /\ result.saved # "no"
    /\ result.saved = "ok" =>
         LET o == load_tasks(<< >>, 1, file)
         IN o.exc = "none" /\ o.tasks = tasks /\ o.next_id = next_id

\* a delete_completed_tasks that removed a task, kept another and saved
C7_ClearedAndSaved ==
  /\ result.op = "delete_completed_tasks"
  /\ result.ret.n > 0
  /\ result.saved = "ok"
  /\ Len(tasks) > 0

\* C6: read_tasks(sort_by='due_date') returns every task without a due date
\* after every task that has one.
C6_UndatedTasksLast ==
  [][ReadTasksFrom({PyNone}, {PyStr(S_due_date)})
       => \A i, j \in 1..Len(result'.ret.l) :
            (result'.ret.l[i].due_date = PyNone /\ result'.ret.l[j].due_date # PyNone)
              => j < i]_vars

\* the snapshot is missing, unreadable or malformed
BadSnapshot ==
  \/ file.kind \in {"absent", "unreadable", "text"}
  \/ file.kind = "json" /\ file.doc.j # "object"

\* C8: at a start that finds the snapshot missing, unreadable or malformed,
\* load_tasks raises nothing and the store is empty with next_id 1.
C8_BadSnapshotRecovered ==
  (result.op = "init" /\ BadSnapshot)
    => (result.exc = "none" /\ pc = "up" /\ Len(tasks) = 0 /\ next_id = 1)

\* C9: a chat request answered with success false leaves the task list and
\* next_id as they were.
C9_FailedChatLeavesStore ==
  [][(Chat /\ ~result'.ret.success) => UNCHANGED store]_vars

\* C10: an update_task that raises the validation error leaves the task list
\* as it was, so the store is persisted after it if it was before.
C10_RejectedUpdateLeavesTask ==
  [][(UpdateTask /\ result'.exc = "ValueError")
       => (tasks' = tasks /\ (Persisted => Persisted'))]_vars

====
